---- MODULE Spec2Model ----
(***************************************************************************)
(* CostTrackingCallbackHandler (src/src/telemetry_demo/                    *)
(* callback_handler_patch.py): the cost parser _parse_cost_from_llm_result *)
(* and the two lifecycle hooks on_llm_end / on_llm_error.                  *)
(*                                                                         *)
(* Values of the response are tagged records, so that a number, a string,  *)
(* a null and a missing key can be told apart:                             *)
(*   [t |-> "num", v |-> n]   an int/float (currency in integer units)     *)
(*   [t |-> "str", v |-> 0]   a non-numeric value                          *)
(*   [t |-> "absent", v |-> 0] the key / attribute is missing              *)
(***************************************************************************)
EXTENDS Integers, Sequences, FiniteSets, TLC

VARIABLES
    response,                          \* the LLMResult handed to the parser
    given,                             \* the same LLMResult as first handed over
    result,                            \* what the last parser call returned
    prev,                              \* what the parser call before it returned
    _cost_parse_warning_logged,        \* self._cost_parse_warning_logged
    warnings,                          \* langfuse_logger.warning records written
    runs,                              \* run ids whose observation is attached
    obs,                               \* run id -> the observation record
    updated_completion_start_time_memo,\* self.updated_completion_start_time_memo
    last,                              \* the hook invocation that returned last
    frames,                            \* run id -> the locals of its on_llm_end
    escaped                            \* an exception reached the caller

vars == <<response, given, result, prev,
          _cost_parse_warning_logged, warnings, runs, obs,
          updated_completion_start_time_memo, last, frames, escaped>>

parserVars == <<response, given, result, prev>>
hookVars == <<runs, obs, updated_completion_start_time_memo, last, frames>>

(***************************************************************************)
(* Bounds of the model.                                                    *)
(***************************************************************************)
MaxGens == 2      \* generation entries of one response
MaxBlocks == 2    \* usage blocks present in one response
MaxRuns == 1      \* call identifiers (run_id) the hooks are invoked with
MaxWarnings == 2  \* cap of the warning counter
MaxInFlight == 2  \* on_llm_end invocations that run at the same time

(***************************************************************************)
(* Values.                                                                 *)
(***************************************************************************)
Absent == [t |-> "absent", v |-> 0]
NonNum == [t |-> "str", v |-> 0]
Num(n) == [t |-> "num", v |-> n]

CostSamples == {-1, 0, 1, 5}
CostVals == {Absent, NonNum} \cup {Num(n) : n \in CostSamples}
PromptVals == {Absent, Num(2)}
CompletionVals == {Absent, Num(3)}

\* usage["cost_details"]: missing, null, or a mapping of the two sub-fields
NoCostDetails == [t |-> "absent", prompt |-> Absent, completion |-> Absent]
NullCostDetails == [t |-> "null", prompt |-> Absent, completion |-> Absent]
CostDetailsVals ==
    {NoCostDetails, NullCostDetails}
    \cup ({[t |-> "map", prompt |-> p, completion |-> c] :
               p \in PromptVals, c \in CompletionVals}
           \ {[t |-> "map", prompt |-> Absent, completion |-> Absent]})

\* a usage block: missing/None, a (non-empty) dict, or an object with attributes.
\* `provider` holds the provider fields present and non-null in the block, out of
\* is_byok, system_fingerprint, service_tier and id.
NoBlock ==
    [kind |-> "none", cost |-> Absent, cost_details |-> NoCostDetails,
     provider |-> {}]
DictBlock(c, cd) ==
    [kind |-> "dict", cost |-> c, cost_details |-> cd, provider |-> {}]
ObjBlock(c) ==
    [kind |-> "obj", cost |-> c, cost_details |-> NoCostDetails, provider |-> {}]
WithProvider(b, fields) == [b EXCEPT !.provider = fields]

IsNumber(x) == x.t = "num"

\* line 65: isinstance(cost, (int, float)) and cost > 0
IsNonNegativeCost(cost) == IsNumber(cost) /\ cost.v >= 0
IsPositiveCost(cost) == IsNumber(cost) /\ cost.v > 0

\* cost_details is read only under a positive cost; the blocks that carry one
\* have cost 5
DictBlocks ==
    {DictBlock(c, NoCostDetails) : c \in CostVals}
    \cup {DictBlock(Num(5), cd) : cd \in CostDetailsVals}
ObjBlocks == {ObjBlock(Num(n)) : n \in {0, 5}}
\* OpenRouter's usage block with is_byok: false and a system_fingerprint
ProviderBlocks ==
    {WithProvider(DictBlock(c, NoCostDetails), {"is_byok", "system_fingerprint"}) :
        c \in {Absent, Num(5)}}
TopBlocks == DictBlocks \cup ObjBlocks \cup ProviderBlocks
MsgBlocks == DictBlocks
GenBlocks == {DictBlock(c, NoCostDetails) : c \in CostVals} \cup ObjBlocks

(***************************************************************************)
(* Responses.  llm_output is None or a mapping that may hold "usage" and   *)
(* "token_usage"; generations holds the generation entries of all lists in *)
(* iteration order; an entry may have a message, whose response_metadata   *)
(* may hold "usage" and "token_usage", and a generation_info that may hold *)
(* "usage_metadata".  A position is <<key, 0>> for llm_output and          *)
(* <<key, i>> for generation entry i.                                      *)
(***************************************************************************)
TopKeys == {"usage", "token_usage"}
EntryKeys == {"usage", "token_usage", "usage_metadata"}

Positions(n) ==
    {<<k, 0>> : k \in TopKeys} \cup {<<k, i>> : k \in EntryKeys, i \in 1..n}

\* the blocks a position may hold: any at the top level, dicts in a message's
\* response_metadata, blocks without cost_details as usage_metadata
AllowedAt(p, b) ==
    IF p[2] = 0 THEN TRUE
    ELSE IF p[1] = "usage_metadata"
    THEN b.cost_details.t = "absent" /\ b.provider = {}
    ELSE b.kind = "dict" /\ b.provider = {}

Assignments(P) == {f \in [P -> TopBlocks] : \A p \in P : AllowedAt(p, f[p])}

BlockAt(f, p) == IF p \in DOMAIN f THEN f[p] ELSE NoBlock

\* llm_output is None when it would hold no usage block
OutputKind(P) == IF \E p \in P : p[2] = 0 THEN "map" ELSE "null"

\* an entry has a message (a ChatGeneration) when its response_metadata holds
\* a usage block, and is a plain Generation otherwise
HasMessage(i, P) == \E p \in P : p[2] = i /\ p[1] # "usage_metadata"

MkResponse(n, P, f) ==
    [llm_output |->
        [t |-> OutputKind(P),
         usage |-> BlockAt(f, <<"usage", 0>>),
         token_usage |-> BlockAt(f, <<"token_usage", 0>>)],
     generations |->
        [i \in 1..n |->
            [has_message |-> HasMessage(i, P),
             usage |-> BlockAt(f, <<"usage", i>>),
             token_usage |-> BlockAt(f, <<"token_usage", i>>),
             usage_metadata |-> BlockAt(f, <<"usage_metadata", i>>)]]]

\* the position sets of a response of n entries with at most maxBlocks blocks
Sparse(n, maxBlocks) ==
    {Q \in SUBSET Positions(n) : Cardinality(Q) <= maxBlocks}

\* `resp` is a response of at most maxGens entries and maxBlocks blocks
IsResponse(resp, maxGens, maxBlocks) ==
    \E n \in 0..maxGens :
       \E P \in Sparse(n, maxBlocks) :
          \E f \in Assignments(P) :
             resp = MkResponse(n, P, f)

\* the responses the hooks are driven with: no generation at all, no cost,
\* a top-level cost with its breakdown, one whose cost_details is null, and
\* a cost in generation_info only
EmptyResponse == MkResponse(0, {}, << >>)
OneBlock(n, p, b) == MkResponse(n, {p}, [q \in {p} |-> b])
HookResponses ==
    {EmptyResponse,
     MkResponse(1, {}, << >>),
     OneBlock(1, <<"token_usage", 0>>,
              DictBlock(Num(5), [t |-> "map", prompt |-> Num(2), completion |-> Num(3)])),
     OneBlock(1, <<"token_usage", 0>>, DictBlock(Num(5), NullCostDetails)),
     OneBlock(1, <<"usage_metadata", 1>>, DictBlock(Num(5), NoCostDetails))}

(***************************************************************************)
(* The parser's return values: None, {"total": c} or                       *)
(* {"input": i, "output": o, "total": c}.                                  *)
(***************************************************************************)
None == [keys |-> "none", input |-> 0, output |-> 0, total |-> 0]
TotalOnly(c) == [keys |-> "total", input |-> 0, output |-> 0, total |-> c]
Full(i, o, c) == [keys |-> "full", input |-> i, output |-> o, total |-> c]

\* dict.get(key, default)
Get(x, default) == IF x.t = "absent" THEN default ELSE x.v

\* what examining one location does: return a record, raise, or fall through
Cont == [st |-> "cont", res |-> None]
Fault == [st |-> "fault", res |-> None]
Ret(r) == [st |-> "ret", res |-> r]

\* lines 66-71 and 93-98: cost_details.get(...) raises on a cost_details
\* that is not a mapping
CostRecordSwapped(cost, cd) ==
    IF cd.t = "null" THEN Fault
    ELSE Ret(Full(Get(cd.completion, 0), Get(cd.prompt, 0), cost.v))

CostRecord(cost, cd) ==
    IF cd.t = "null" THEN Fault
    ELSE Ret(Full(Get(cd.prompt, 0), Get(cd.completion, 0), cost.v))

\* lines 60-77, one usage_key of llm_output
TopStep(block) ==
    IF block.kind = "dict" /\ block.cost.t # "absent"
    THEN IF IsPositiveCost(block.cost)
         THEN CostRecord(block.cost, block.cost_details)
         ELSE Cont
    ELSE IF block.kind = "obj" /\ block.cost.t # "absent"
    THEN IF IsPositiveCost(block.cost) THEN Ret(TotalOnly(block.cost.v)) ELSE Cont
    ELSE Cont

\* lines 57-77: for usage_key in ["usage", "token_usage"]
TopScan(llm_output) ==
    IF llm_output.t # "map" THEN Cont
    ELSE LET first == TopStep(llm_output.usage)
         IN  IF first.st # "cont" THEN first ELSE TopStep(llm_output.token_usage)

\* line 88: meta.get("usage") or meta.get("token_usage") or {}
SelectedUsageTokenFirst(entry) ==
    IF entry.token_usage.kind # "none" THEN entry.token_usage
    ELSE IF entry.usage.kind # "none" THEN entry.usage
    ELSE NoBlock

SelectedUsage(entry) ==
    IF entry.usage.kind # "none" THEN entry.usage
    ELSE IF entry.token_usage.kind # "none" THEN entry.token_usage
    ELSE NoBlock

\* lines 84-98: the message's response_metadata
MsgStep(entry) ==
    IF ~entry.has_message THEN Cont
    ELSE LET usage == SelectedUsage(entry)
         IN  IF usage.kind = "dict" /\ usage.cost.t # "absent"
                /\ IsPositiveCost(usage.cost)
             THEN CostRecord(usage.cost, usage.cost_details)
             ELSE Cont

\* lines 101-112: generation_info["usage_metadata"]
GenStepWithBreakdown(entry) ==
    LET um == entry.usage_metadata
    IN  IF um.kind \in {"dict", "obj"} /\ um.cost.t # "absent"
           /\ IsPositiveCost(um.cost)
        THEN Ret(Full(0, 0, um.cost.v))
        ELSE Cont

GenStep(entry) ==
    LET um == entry.usage_metadata
    IN  IF um.kind \in {"dict", "obj"} /\ um.cost.t # "absent"
           /\ IsPositiveCost(um.cost)
        THEN Ret(TotalOnly(um.cost.v))
        ELSE Cont

\* every message (lines 84-98) ahead of every generation_info (lines 101-112)
RECURSIVE MsgScan(_, _)
MsgScan(generations, i) ==
    IF i > Len(generations) THEN Cont
    ELSE LET m == MsgStep(generations[i])
         IN  IF m.st # "cont" THEN m ELSE MsgScan(generations, i + 1)

RECURSIVE InfoScan(_, _)
InfoScan(generations, i) ==
    IF i > Len(generations) THEN Cont
    ELSE LET g == GenStep(generations[i])
         IN  IF g.st # "cont" THEN g ELSE InfoScan(generations, i + 1)

GenScanMessagesFirst(generations, i) ==
    LET m == MsgScan(generations, i)
    IN  IF m.st # "cont" THEN m ELSE InfoScan(generations, i)

\* lines 80-112: each entry in turn, its message first, its generation_info next
RECURSIVE GenScan(_, _)
GenScan(generations, i) ==
    IF i > Len(generations) THEN Cont
    ELSE LET m == MsgStep(generations[i])
         IN  IF m.st # "cont" THEN m
             ELSE LET g == GenStep(generations[i])
                  IN  IF g.st # "cont" THEN g
                      ELSE GenScan(generations, i + 1)

\* lines 56-114, the body of the try block
ScanGenerationsFirst(resp) ==
    LET gen == GenScan(resp.generations, 1)
    IN  IF gen.st # "cont" THEN gen ELSE TopScan(resp.llm_output)

Scan(resp) ==
    LET top == TopScan(resp.llm_output)
    IN  IF top.st # "cont" THEN top ELSE GenScan(resp.generations, 1)

(***************************************************************************)
(* _parse_cost_from_llm_result (lines 42-120).  `warned` is                *)
(* self._cost_parse_warning_logged on entry.  The value gives what the     *)
(* call returns, the response as the call leaves it, the flag on exit, the *)
(* warnings it logged and whether an exception left the method.            *)
(***************************************************************************)
\* `cost = usage_data.pop("cost")` in place of `usage_data["cost"]`
WithoutTopCost(resp) ==
    LET lo == resp.llm_output
        drop(b) == IF b.kind = "dict"
                   THEN [b EXCEPT !.cost = Absent]
                   ELSE b
    IN  IF lo.t = "map" /\ TopStep(lo.usage).st # "cont"
        THEN [resp EXCEPT !.llm_output.usage = drop(lo.usage)]
        ELSE IF lo.t = "map" /\ TopStep(lo.token_usage).st # "cont"
        THEN [resp EXCEPT !.llm_output.token_usage = drop(lo.token_usage)]
        ELSE resp

ParsePoppingCost(resp, warned) ==
    LET s == Scan(resp)
    IN  [result |-> IF s.st = "ret" THEN s.res ELSE None,
         response |-> WithoutTopCost(resp),
         warned |-> warned \/ s.st = "fault",
         logged |-> IF s.st = "fault" /\ ~warned THEN 1 ELSE 0,
         raised |-> FALSE]

ParseWarningEveryFault(resp, warned) ==
    LET s == Scan(resp)
    IN  [result |-> IF s.st = "ret" THEN s.res ELSE None,
         response |-> resp,
         warned |-> warned,
         logged |-> IF s.st = "fault" THEN 1 ELSE 0,
         raised |-> FALSE]

_parse_cost_from_llm_result(resp, warned) ==
    LET s == Scan(resp)
    IN  [result |-> IF s.st = "ret" THEN s.res ELSE None,
         response |-> resp,
         warned |-> warned \/ s.st = "fault",
         logged |-> IF s.st = "fault" /\ ~warned THEN 1 ELSE 0,
         raised |-> FALSE]

(***************************************************************************)
(* The handler's state.                                                    *)
(***************************************************************************)
RunIds == 1..MaxRuns

Unset == [keys |-> "unset", input |-> 0, output |-> 0, total |-> 0]

\* an observation as the SDK's on_llm_start leaves it
NoUpdate == [hook |-> "none", cost_details |-> Unset, level |-> "DEFAULT",
             status_message |-> ""]
NewObservation == [updates |-> 0, update |-> NoUpdate, ends |-> 0]

\* no hook has been invoked yet
NoHook == [hook |-> "none", run_id |-> 0, raised |-> FALSE, attached |-> FALSE,
           error |-> ""]

\* __init__ (lines 32-40)
InitHandler ==
    /\ _cost_parse_warning_logged = FALSE
    /\ warnings = 0
    /\ escaped = FALSE

Min(a, b) == IF a < b THEN a ELSE b

(***************************************************************************)
(* The parser called on its own, again and again on one response.          *)
(***************************************************************************)
ParserInit ==
    /\ IsResponse(response, MaxGens, MaxBlocks)
    /\ given = response
    /\ result = Unset
    /\ prev = Unset
    /\ InitHandler
    /\ runs = {}
    /\ obs = [r \in RunIds |-> NewObservation]
    /\ updated_completion_start_time_memo = {}
    /\ last = NoHook
    /\ frames = << >>

ParseCall ==
    /\ LET out == _parse_cost_from_llm_result(response, _cost_parse_warning_logged)
       IN  /\ result' = out.result
           /\ prev' = result
           /\ response' = out.response
           /\ _cost_parse_warning_logged' = out.warned
           /\ warnings' = Min(warnings + out.logged, MaxWarnings)
           /\ escaped' = out.raised
    /\ UNCHANGED <<given, hookVars>>

ParserNext == ParseCall

Spec == ParserInit /\ [][ParserNext]_vars

(***************************************************************************)
(* The hooks.  A hook runs to its return in one step.  `fail` names the    *)
(* call into the SDK that raises in this invocation, if any.               *)
(***************************************************************************)
\* the exceptions on_llm_error is handed; str(error) is the message
Errors ==
    {[type |-> "ValueError", msg |-> "invalid model"],
     [type |-> "KeyboardInterrupt", msg |-> ""]}
Str(error) == error.msg

EndFails == {"none", "extract", "usage", "detach", "update", "end"}
ErrorFails == {"none", "detach", "update", "end"}

\* lines 175-176 and 209-210: `except Exception` logs what the body raised,
\* nothing is re-raised
Propagates(raised) == FALSE

\* lines 178-181: finally, memo.discard(run_id)
DiscardUnlessRaised(memo, run_id, raised) ==
    IF raised THEN memo ELSE memo \ {run_id}
DiscardMemo(memo, run_id, raised) == memo \ {run_id}

\* lines 160-171: update_params of the success path
EndUpdateAlwaysMerges(cost_details) ==
    [hook |-> "on_llm_end", cost_details |-> cost_details, level |-> "DEFAULT",
     status_message |-> ""]
EndUpdate(cost_details) ==
    [hook |-> "on_llm_end",
     cost_details |-> IF cost_details # None THEN cost_details ELSE Unset,
     level |-> "DEFAULT",
     status_message |-> ""]

\* lines 202-207: the update of the error path
ErrorUpdateWithoutCost(error) ==
    [hook |-> "on_llm_error", cost_details |-> Unset, level |-> "ERROR",
     status_message |-> Str(error)]
ErrorUpdate(error) ==
    [hook |-> "on_llm_error", cost_details |-> Full(0, 0, 0), level |-> "ERROR",
     status_message |-> Str(error)]

\* generation.update(**params).end(), of which `fail` may raise one
Applied(o, update, fail) ==
    IF fail = "update" THEN o
    ELSE [updates |-> o.updates + 1,
          update |-> update,
          ends |-> IF fail = "end" THEN o.ends ELSE o.ends + 1]

\* line 142: response.generations[-1][-1] raises IndexError without generations
ExtractRaises(resp, fail) == fail = "extract" \/ Len(resp.generations) = 0

\* the body of on_llm_end raised (lines 137-173)
EndRaises(run_id, resp, fail) ==
    \/ ExtractRaises(resp, fail)
    \/ fail \in {"usage", "detach"}
    \/ run_id \in runs /\ fail \in {"update", "end"}

\* on_llm_end (lines 122-181)
on_llm_end(run_id, resp, fail) ==
    LET parsed == ~ExtractRaises(resp, fail) /\ fail # "usage"
        out == _parse_cost_from_llm_result(resp, _cost_parse_warning_logged)
        detached == parsed /\ fail # "detach"
        raised == EndRaises(run_id, resp, fail)
    IN  /\ _cost_parse_warning_logged' =
              IF parsed THEN out.warned ELSE _cost_parse_warning_logged
        /\ warnings' =
              IF parsed THEN Min(warnings + out.logged, MaxWarnings) ELSE warnings
        /\ runs' = IF detached THEN runs \ {run_id} ELSE runs
        /\ obs' = IF detached /\ run_id \in runs
                  THEN [obs EXCEPT
                           ![run_id] = Applied(@, EndUpdate(out.result), fail)]
                  ELSE obs
        /\ updated_completion_start_time_memo' =
              DiscardMemo(updated_completion_start_time_memo, run_id, raised)
        /\ last' = [hook |-> "on_llm_end", run_id |-> run_id, raised |-> raised,
                    attached |-> run_id \in runs, error |-> ""]
        /\ escaped' = Propagates(raised)
        /\ result' = IF parsed THEN out.result ELSE result
        /\ UNCHANGED <<response, given, prev, frames>>

\* the body of on_llm_error raised (lines 197-207)
ErrorRaises(run_id, fail) ==
    \/ fail = "detach"
    \/ run_id \in runs /\ fail \in {"update", "end"}

\* on_llm_error (lines 183-210)
on_llm_error(run_id, error, fail) ==
    LET detached == fail # "detach"
        raised == ErrorRaises(run_id, fail)
    IN  /\ runs' = IF detached THEN runs \ {run_id} ELSE runs
        /\ obs' = IF detached /\ run_id \in runs
                  THEN [obs EXCEPT ![run_id] = Applied(@, ErrorUpdate(error), fail)]
                  ELSE obs
        /\ last' = [hook |-> "on_llm_error", run_id |-> run_id, raised |-> raised,
                    attached |-> run_id \in runs, error |-> Str(error)]
        /\ escaped' = Propagates(raised)
        /\ UNCHANGED <<_cost_parse_warning_logged, warnings,
                       updated_completion_start_time_memo, frames, parserVars>>

\* the SDK has attached observations to some runs and memoised the completion
\* start time of some
HooksInit ==
    /\ response = EmptyResponse
    /\ given = EmptyResponse
    /\ result = Unset
    /\ prev = Unset
    /\ InitHandler
    /\ runs \in SUBSET RunIds
    /\ obs = [r \in RunIds |-> NewObservation]
    /\ updated_completion_start_time_memo \in SUBSET RunIds
    /\ last = NoHook
    /\ frames = << >>

EndHook == \E r \in RunIds, resp \in HookResponses, fail \in EndFails :
               on_llm_end(r, resp, fail)
ErrorHook == \E r \in RunIds, error \in Errors, fail \in ErrorFails :
                 on_llm_error(r, error, fail)

HooksNext == EndHook \/ ErrorHook

SpecHooks == HooksInit /\ [][HooksNext]_vars

(***************************************************************************)
(* on_llm_end statement by statement, for invocations with different       *)
(* run ids that run at the same time on one handler.  `response`,          *)
(* `cost_details` and `generation` are locals of an invocation (lines      *)
(* 122-126, 155, 157); the handler's fields are shared.  No call into the  *)
(* SDK raises here; the parser call of line 155 is one step.               *)
(***************************************************************************)
InFlightIds == 1..MaxInFlight

IdleFrame == [pc |-> "idle", response |-> EmptyResponse, cost_details |-> Unset,
              generation |-> FALSE]

\* line 155: the parser is handed the invocation's own argument
LastHandedResponse(r) == response
ResponseOf(r) == frames[r].response

\* line 122: the hook is entered with its arguments
EndEnter(r, resp) ==
    /\ frames[r].pc = "idle"
    /\ frames' = [frames EXCEPT ![r] = [@ EXCEPT !.pc = "entered",
                                                 !.response = resp]]
    /\ response' = resp
    /\ UNCHANGED <<given, result, prev, _cost_parse_warning_logged, warnings,
                   runs, obs, updated_completion_start_time_memo, last, escaped>>

\* lines 137-152: the output is extracted; without generations line 142
\* raises and the except branch (lines 175-176) leads to finally
EndExtract(r) ==
    /\ frames[r].pc = "entered"
    /\ frames' = [frames EXCEPT ![r].pc =
                     IF ExtractRaises(frames[r].response, "none")
                     THEN "finally" ELSE "extracted"]
    /\ UNCHANGED <<parserVars, _cost_parse_warning_logged, warnings,
                   runs, obs, updated_completion_start_time_memo, last, escaped>>

\* line 155: cost_details = self._parse_cost_from_llm_result(response)
EndParseCost(r) ==
    /\ frames[r].pc = "extracted"
    /\ LET out == _parse_cost_from_llm_result(ResponseOf(r),
                                              _cost_parse_warning_logged)
       IN  /\ frames' = [frames EXCEPT ![r] = [@ EXCEPT !.pc = "parsed",
                                                        !.cost_details = out.result]]
           /\ _cost_parse_warning_logged' = out.warned
           /\ warnings' = Min(warnings + out.logged, MaxWarnings)
    /\ UNCHANGED <<parserVars, runs, obs, updated_completion_start_time_memo,
                   last, escaped>>

\* line 157: generation = self._detach_observation(run_id)
EndDetach(r) ==
    /\ frames[r].pc = "parsed"
    /\ frames' = [frames EXCEPT ![r] = [@ EXCEPT !.pc = "detached",
                                                 !.generation = r \in runs]]
    /\ runs' = runs \ {r}
    /\ UNCHANGED <<parserVars, _cost_parse_warning_logged, warnings, obs,
                   updated_completion_start_time_memo, last, escaped>>

\* lines 159-173: generation.update(**update_params).end()
EndApply(r) ==
    /\ frames[r].pc = "detached"
    /\ frames' = [frames EXCEPT ![r].pc = "finally"]
    /\ obs' = IF frames[r].generation
              THEN [obs EXCEPT
                       ![r] = Applied(@, EndUpdate(frames[r].cost_details), "none")]
              ELSE obs
    /\ UNCHANGED <<parserVars, _cost_parse_warning_logged, warnings, runs,
                   updated_completion_start_time_memo, last, escaped>>

\* lines 178-181: finally, and the hook returns
EndFinally(r) ==
    /\ frames[r].pc = "finally"
    /\ frames' = [frames EXCEPT ![r].pc = "done"]
    /\ updated_completion_start_time_memo' =
          DiscardMemo(updated_completion_start_time_memo, r, FALSE)
    /\ UNCHANGED <<parserVars, _cost_parse_warning_logged, warnings, runs, obs,
                   last, escaped>>

\* an invocation that has been entered runs on
Proceed(r) ==
    EndExtract(r) \/ EndParseCost(r) \/ EndDetach(r) \/ EndApply(r) \/ EndFinally(r)

\* on_llm_start has attached an observation to every run
InterleavedInit ==
    /\ response = EmptyResponse
    /\ given = EmptyResponse
    /\ result = Unset
    /\ prev = Unset
    /\ InitHandler
    /\ runs = InFlightIds
    /\ obs = [r \in InFlightIds |-> NewObservation]
    /\ updated_completion_start_time_memo \in {{}, InFlightIds}
    /\ last = NoHook
    /\ frames = [r \in InFlightIds |-> IdleFrame]

Enter == \E r \in InFlightIds, resp \in HookResponses : EndEnter(r, resp)
Step == \E r \in InFlightIds : Proceed(r)

InterleavedNext == Enter \/ Step

SpecInterleaved ==
    /\ InterleavedInit
    /\ [][InterleavedNext]_vars
    /\ \A r \in InFlightIds : WF_vars(Proceed(r))

(***************************************************************************)
(* What the claims speak of.  The locations of a response are taken in the *)
(* order of the search: llm_output["usage"], llm_output["token_usage"],    *)
(* then for each generation entry the usage block of its message and the   *)
(* usage_metadata of its generation_info.                                  *)
(***************************************************************************)
Called == result # Unset
CalledTwice == prev # Unset

Positive(x) == x.t = "num" /\ x.v > 0
Carries(b) == b.kind # "none" /\ Positive(b.cost)

\* the record the claims expect of a usage dict with a breakdown
Breakdown(b) ==
    Full(IF b.cost_details.t = "map" /\ b.cost_details.prompt.t = "num"
         THEN b.cost_details.prompt.v ELSE 0,
         IF b.cost_details.t = "map" /\ b.cost_details.completion.t = "num"
         THEN b.cost_details.completion.v ELSE 0,
         b.cost.v)

TopOf(resp) ==
    IF resp.llm_output.t = "map"
    THEN <<resp.llm_output.usage, resp.llm_output.token_usage>>
    ELSE << >>

\* the usage block of a message: "usage" when it is there, else "token_usage"
MessageUsage(e) ==
    IF ~e.has_message THEN NoBlock
    ELSE IF e.usage.kind # "none" THEN e.usage ELSE e.token_usage

MessageBlocks(resp) ==
    UNION {{resp.generations[i].usage, resp.generations[i].token_usage} :
              i \in {j \in DOMAIN resp.generations : resp.generations[j].has_message}}

GenerationInfoBlocks(resp) ==
    {resp.generations[i].usage_metadata : i \in DOMAIN resp.generations}

RECURSIVE EntryLocations(_, _)
EntryLocations(generations, i) ==
    IF i > Len(generations) THEN << >>
    ELSE <<[where |-> "message", block |-> MessageUsage(generations[i])],
           [where |-> "generation_info", block |-> generations[i].usage_metadata]>>
         \o EntryLocations(generations, i + 1)

SearchOrder(resp) ==
    [i \in 1..Len(TopOf(resp)) |-> [where |-> "top", block |-> TopOf(resp)[i]]]
    \o EntryLocations(resp.generations, 1)

HasWinner(resp) ==
    \E i \in DOMAIN SearchOrder(resp) : Carries(SearchOrder(resp)[i].block)

\* the first location of the search order that carries a positive cost
Winner(resp) ==
    LET order == SearchOrder(resp)
        first == CHOOSE i \in DOMAIN order :
                    /\ Carries(order[i].block)
                    /\ \A j \in 1..(i - 1) : ~Carries(order[j].block)
    IN  order[first]

\* a usage dict whose cost_details is there and is no mapping
NullBreakdown(loc) ==
    /\ loc.where \in {"top", "message"}
    /\ loc.block.kind = "dict"
    /\ loc.block.cost_details.t = "null"

\* C1 as stated: a top-level usage or token_usage dict with a numeric cost > 0
\* makes the parser return total = that cost, input and output from its
\* cost_details, 0 where the sub-field is absent.
C1_TopLevelCostAsStated ==
    Called =>
        \A i \in DOMAIN TopOf(response) :
            (TopOf(response)[i].kind = "dict" /\ Carries(TopOf(response)[i]))
            => \E j \in DOMAIN TopOf(response) :
                  /\ TopOf(response)[j].kind = "dict"
                  /\ Carries(TopOf(response)[j])
                  /\ result = Breakdown(TopOf(response)[j])

\* C1 amended: when the first of llm_output's usage, token_usage that carries a
\* cost > 0 is a dict whose cost_details is absent or a mapping, the parser
\* returns total = that cost, input and output from the cost_details, 0 where
\* the sub-field is absent.
C1_TopLevelCost ==
    (Called /\ HasWinner(response) /\ Winner(response).where = "top"
        /\ Winner(response).block.kind = "dict"
        /\ ~NullBreakdown(Winner(response)))
    => result = Breakdown(Winner(response).block)

\* C1 witness: cost 5 with the breakdown 2/3 gave {input: 2, output: 3, total: 5}
C1_Witness ==
    /\ Called
    /\ response.llm_output.t = "map"
    /\ response.llm_output.usage =
          DictBlock(Num(5), [t |-> "map", prompt |-> Num(2), completion |-> Num(3)])
    /\ result = Full(2, 3, 5)

AllBlocks(resp) ==
    {TopOf(resp)[i] : i \in DOMAIN TopOf(resp)}
    \cup MessageBlocks(resp) \cup GenerationInfoBlocks(resp)

\* C2: the parser returns a record only with total > 0, and returns none when
\* every cost field of the response is 0, negative, absent or non-numeric.
C2_OnlyPositiveTotals ==
    Called =>
        /\ result # None => result.total > 0
        /\ (\A b \in AllBlocks(response) : ~Positive(b.cost)) => result = None

\* C2 witness: a top-level cost of 0 was parsed and nothing was returned
C2_Witness ==
    /\ Called
    /\ response.llm_output.t = "map"
    /\ response.llm_output.usage.kind = "dict"
    /\ response.llm_output.usage.cost = Num(0)
    /\ \A b \in AllBlocks(response) : ~Positive(b.cost)
    /\ result = None

\* the record built from a location: with the breakdown for a usage dict of
\* llm_output or of a message, the total alone otherwise
Built(loc) ==
    IF loc.where \in {"top", "message"} /\ loc.block.kind = "dict"
    THEN Breakdown(loc.block)
    ELSE TotalOnly(loc.block.cost.v)

PerGenerationDisagrees(resp) ==
    \E b \in MessageBlocks(resp) \cup GenerationInfoBlocks(resp) :
        Carries(b) /\ b.cost # Winner(resp).block.cost

NoTopLevelCost(resp) == \A i \in DOMAIN TopOf(resp) : ~Carries(TopOf(resp)[i])

\* C4 as stated: without a positive top-level cost, a positive cost in the
\* usage or token_usage block of some entry's message metadata is returned as
\* the total, with the breakdown of that block.
C4_MessageFallbackAsStated ==
    (Called /\ NoTopLevelCost(response)
        /\ \E b \in MessageBlocks(response) : Carries(b))
    => \E b \in MessageBlocks(response) : Carries(b) /\ result = Breakdown(b)

\* C4 amended: without a positive top-level cost, when the first generation
\* entry that carries a positive cost (in the usage block of its message, which
\* is "usage" when present and "token_usage" otherwise, or in its
\* generation_info.usage_metadata) carries it in that message block, and the
\* block's cost_details is absent or a mapping, the parser returns total = that
\* cost with the breakdown of that block.
C4_MessageFallback ==
    (Called /\ HasWinner(response) /\ Winner(response).where = "message"
        /\ ~NullBreakdown(Winner(response)))
    => result = Breakdown(Winner(response).block)

\* C4 witness: without a top-level cost, the usage block of a message gave the
\* record, with total 5 and input 2 from its cost_details
C4_Witness ==
    /\ Called
    /\ NoTopLevelCost(response)
    /\ HasWinner(response) /\ Winner(response).where = "message"
    /\ result = Breakdown(Winner(response).block)
    /\ result.total = 5 /\ result.input = 2

\* C5: when the only positive cost of a response is in a generation entry's
\* generation_info.usage_metadata, the parser returns exactly {total: cost}.
C5_GenerationInfoTotalOnly ==
    (Called /\ NoTopLevelCost(response)
        /\ (\A b \in MessageBlocks(response) : ~Carries(b))
        /\ \E b \in GenerationInfoBlocks(response) : Carries(b))
    => \E b \in GenerationInfoBlocks(response) :
          Carries(b) /\ result = TotalOnly(b.cost.v)

\* C5 witness: a usage_metadata cost alone gave a record with the key total only
C5_Witness ==
    /\ Called
    /\ NoTopLevelCost(response)
    /\ \A b \in MessageBlocks(response) : ~Carries(b)
    /\ \E b \in GenerationInfoBlocks(response) : Carries(b)
    /\ result.keys = "total"

\* the keys of the dict the parser returns
ResultKeys(r) ==
    IF r.keys = "full" THEN {"input", "output", "total"}
    ELSE IF r.keys = "total" THEN {"total"}
    ELSE {}

MetadataKeys(r) == ResultKeys(r) \ {"input", "output", "total"}

Namespaced ==
    [is_byok |-> "openrouter_is_byok",
     system_fingerprint |-> "openrouter_system_fingerprint",
     service_tier |-> "openrouter_service_tier",
     id |-> "openrouter_id"]

ProviderFields(resp) ==
    UNION {TopOf(resp)[i].provider : i \in DOMAIN TopOf(resp)}

\* C6 as stated: the parser's result carries, under namespaced keys, is_byok
\* whenever the top-level usage block has it and each of system_fingerprint,
\* service_tier and id that is present and non-null there.
C6_MetadataAsStated ==
    Called =>
        MetadataKeys(result) = {Namespaced[f] : f \in ProviderFields(response)}

\* a location after the first positive one that carries a cost the parser
\* could build a record from
LaterCost(resp) ==
    LET order == SearchOrder(resp)
    IN  \E i, j \in DOMAIN order :
           /\ i < j
           /\ order[i] = Winner(resp)
           /\ Carries(order[j].block)
           /\ ~NullBreakdown(order[j])

\* C9 as stated: the parser never raises, and a fault at one location leaves
\* the later locations consulted, so that a positive cost there is returned.
C9_FaultIsolatedAsStated ==
    Called =>
        /\ ~escaped
        /\ (HasWinner(response) /\ NullBreakdown(Winner(response))
               /\ LaterCost(response))
           => result # None

\* C10: a second call on the same response returns what the first returned,
\* and no call changes the response, also after a call that hit a parse fault.
C10_Idempotent ==
    /\ Called => response = given
    /\ CalledTwice => result = prev

\* C10 witness: two calls were made, the first hit a fault and set the flag
C10_Witness ==
    /\ CalledTwice
    /\ _cost_parse_warning_logged
    /\ result = prev
    /\ response = given

ZeroCostErrorUpdate(message) ==
    [hook |-> "on_llm_error", cost_details |-> Full(0, 0, 0), level |-> "ERROR",
     status_message |-> message]

InfoBeforeMessage(resp, i, j) ==
    /\ i \in DOMAIN resp.generations
    /\ j \in DOMAIN resp.generations
    /\ i < j
    /\ Carries(resp.generations[i].usage_metadata)
    /\ Carries(MessageUsage(resp.generations[j]))

NoNullMessageBreakdown(resp) ==
    \A b \in MessageBlocks(resp) : ~(b.kind = "dict" /\ b.cost_details.t = "null")

\* C11 as stated: message-level metadata is searched over all generation
\* entries before any generation_info.usage_metadata, so with a positive
\* usage_metadata cost in one entry and a positive message-level cost in a
\* later entry the parser returns the message-level record with its breakdown.
\* (Stated for responses whose message-level cost_details are absent or
\* mappings, so that no parse fault is involved.)
C11_MessagesBeforeInfoAsStated ==
    (Called /\ NoTopLevelCost(response) /\ NoNullMessageBreakdown(response)
        /\ \E i, j \in DOMAIN response.generations :
               InfoBeforeMessage(response, i, j))
    => \E b \in MessageBlocks(response) : Carries(b) /\ result = Breakdown(b)

\* C11 amended: the generation entries are searched one at a time, the message
\* of an entry before its generation_info.usage_metadata; so without a positive
\* top-level cost, when an entry with a positive usage_metadata cost has no
\* positive message-level cost in it or before it, the parser returns the
\* total-only record of that usage_metadata cost, whatever message-level cost a
\* later entry has.
C11_EntryByEntry ==
    \A i, j \in DOMAIN response.generations :
        (Called /\ NoTopLevelCost(response)
            /\ InfoBeforeMessage(response, i, j)
            /\ \A k \in 1..i : ~Carries(MessageUsage(response.generations[k]))
            /\ \A m \in 1..(i - 1) : ~Carries(response.generations[m].usage_metadata))
        => result = TotalOnly(response.generations[i].usage_metadata.cost.v)

\* C11 witness: entry 1 has usage_metadata cost 5, entry 2 has a message-level
\* cost, and the parser returned {total: 5}
C11_Witness ==
    /\ Called
    /\ NoTopLevelCost(response)
    /\ NoNullMessageBreakdown(response)
    /\ InfoBeforeMessage(response, 1, 2)
    /\ result = TotalOnly(5)

\* a response on which the search hits a parse fault: the first location that
\* carries a positive cost is a usage dict whose cost_details is no mapping
Faulting(resp) == HasWinner(resp) /\ NullBreakdown(Winner(resp))

WarnedOnce ==
    /\ warnings <= 1
    /\ _cost_parse_warning_logged <=> warnings = 1
    /\ (Called /\ Faulting(response)) =>
          (result = None /\ _cost_parse_warning_logged /\ warnings = 1)

\* C13: over any sequence of parser calls on one handler, however many of them
\* hit a parse fault, at most one warning is logged;
\* _cost_parse_warning_logged goes from false to true at the first fault and
\* never returns to false; every faulting call returns None.
C13_WarnOnce ==
    /\ []WarnedOnce
    /\ [][_cost_parse_warning_logged => _cost_parse_warning_logged']_vars

\* C13 witness: two calls on a faulting response, one warning, flag set, None
C13_Witness ==
    /\ CalledTwice
    /\ Faulting(response)
    /\ result = None
    /\ prev = None
    /\ _cost_parse_warning_logged
    /\ warnings = 1

\* the success path of on_llm_end: the observation was attached, nothing raised
EndSucceeded == last.hook = "on_llm_end" /\ last.attached /\ ~last.raised

\* a cost record that is neither None nor empty
NonEmpty(r) == r.keys \in {"total", "full"}

UpdatedOnceThenClosed ==
    /\ \A r \in RunIds :
          /\ obs[r].updates <= 1
          /\ obs[r].ends <= obs[r].updates
          /\ r \in runs => obs[r].updates = 0
    /\ EndSucceeded =>
          /\ obs[last.run_id].updates = 1
          /\ obs[last.run_id].ends = 1
          /\ obs[last.run_id].update.hook = "on_llm_end"
          /\ result # Unset
          /\ obs[last.run_id].update.cost_details =
                IF NonEmpty(result) THEN result ELSE Unset

\* C12: on the success path the call's observation is updated exactly once and
\* then closed, the update carries the parsed cost record exactly when the
\* parser returned a non-empty one, and over any sequence of on_llm_end and
\* on_llm_error invocations an observation is updated and closed at most once:
\* a hook for an identifier that is no longer attached leaves it as it is.
C12_UpdatedOnce ==
    /\ []UpdatedOnceThenClosed
    /\ [][\A r \in RunIds : r \notin runs => obs'[r] = obs[r]]_vars

\* C12 witness: an attached observation was updated once with the parsed record
\* {input: 2, output: 3, total: 5} and closed, and is no longer attached
C12_Witness ==
    /\ EndSucceeded
    /\ last.run_id \notin runs
    /\ obs[last.run_id].updates = 1
    /\ obs[last.run_id].ends = 1
    /\ result = Full(2, 3, 5)
    /\ obs[last.run_id].update.cost_details = Full(2, 3, 5)

\* the cost_details an on_llm_end update carries for a response
CostOf(resp) ==
    LET parsed == _parse_cost_from_llm_result(resp, FALSE).result
    IN  IF NonEmpty(parsed) THEN parsed ELSE Unset

Entered(r) == frames[r].pc # "idle"
InHook(r) == frames[r].pc \notin {"idle", "done"}

\* run r1's observation carries the cost of the response handed over for r2
EnrichedFrom(r1, r2) ==
    /\ r1 # r2
    /\ Entered(r1) /\ Entered(r2)
    /\ obs[r1].updates > 0
    /\ CostOf(frames[r1].response) # CostOf(frames[r2].response)
    /\ obs[r1].update.cost_details = CostOf(frames[r2].response)

CrossEnriched == \E r1, r2 \in InFlightIds : EnrichedFrom(r1, r2)

\* two invocations are inside on_llm_end at once, neither has parsed yet, and
\* their responses carry different costs
Interleaved ==
    \E r1, r2 \in InFlightIds :
        /\ r1 # r2
        /\ frames[r1].pc = "extracted" /\ frames[r2].pc = "extracted"
        /\ CostOf(frames[r1].response) # CostOf(frames[r2].response)

====
